---- MODULE Spec2Model ----
(***************************************************************************)
(* Model of github.com/haxii/tspl: the 1bpp packed image (bin-img/img.go)  *)
(* and the TSPL BITMAP codec and overlay (tspl.go).                        *)
(*                                                                         *)
(* Memory is explicit.  A byte slice is a window [buf, off, len] into a    *)
(* named backing array of the heap, so that a sub-view aliases its parent  *)
(* exactly as the Go slices do.  A machine value m = [heap, panic] is      *)
(* threaded through every operation that writes; an index or slice bound   *)
(* outside a slice raises the Go run-time panic, recorded in m.panic.      *)
(* Byte strings are sequences of 0..255; Go's index i is TLA+'s i + 1.     *)
(***************************************************************************)
EXTENDS Integers, Sequences, FiniteSets, TLC

VARIABLES heap, img, panicked, phase, nSets, inp, out

vars == <<heap, img, panicked, phase, nSets, inp, out>>

(***************************************************************************)
(* Bounds of the model.                                                    *)
(***************************************************************************)
\* per-pixel Set calls made on the images of one behaviour
MaxSets == 1
\* pixels of the pattern written into both images of the rotation pair
MaxWrites == 2

(***************************************************************************)
(* Go integer and byte arithmetic.                                         *)
(***************************************************************************)
\* Go's / truncates toward zero (b > 0)
GoDiv(a, b) == IF a >= 0 THEN a \div b ELSE -((-a) \div b)

\* Go's % takes the sign of the dividend
GoMod(a, b) == a - b * GoDiv(a, b)

\* bit k of a byte
BitAt(by, k) == (by \div (2 ^ k)) % 2

\* by | mask, for a one-bit mask
OrMask(by, mask) == IF (by \div mask) % 2 = 1 THEN by ELSE by + mask

\* by &^ mask, for a one-bit mask
AndNotMask(by, mask) == IF (by \div mask) % 2 = 1 THEN by - mask ELSE by

\* math/bits.Reverse8, as Rotate180 uses it
Reverse8Shifted(by) == (by * 2) % 256

Reverse8(by) ==
    BitAt(by, 0) * 128 + BitAt(by, 1) * 64 + BitAt(by, 2) * 32 + BitAt(by, 3) * 16
    + BitAt(by, 4) * 8 + BitAt(by, 5) * 4 + BitAt(by, 6) * 2 + BitAt(by, 7)

Zeros(n) == [i \in 1..n |-> 0]

(***************************************************************************)
(* image.Rectangle, as SubImage, Set and At use it.                        *)
(***************************************************************************)
Rect(x0, y0, x1, y1) ==
    [MinX |-> IF x0 > x1 THEN x1 ELSE x0, MinY |-> IF y0 > y1 THEN y1 ELSE y0,
     MaxX |-> IF x0 > x1 THEN x0 ELSE x1, MaxY |-> IF y0 > y1 THEN y0 ELSE y1]

ZR == [MinX |-> 0, MinY |-> 0, MaxX |-> 0, MaxY |-> 0]

Dx(r) == r.MaxX - r.MinX

Dy(r) == r.MaxY - r.MinY

Empty(r) == r.MinX >= r.MaxX \/ r.MinY >= r.MaxY

\* image.Pt(x, y).In(r)
In(x, y, r) == r.MinX <= x /\ x < r.MaxX /\ r.MinY <= y /\ y < r.MaxY

Intersect(r, s) ==
    LET t == [MinX |-> IF r.MinX < s.MinX THEN s.MinX ELSE r.MinX,
              MinY |-> IF r.MinY < s.MinY THEN s.MinY ELSE r.MinY,
              MaxX |-> IF r.MaxX > s.MaxX THEN s.MaxX ELSE r.MaxX,
              MaxY |-> IF r.MaxY > s.MaxY THEN s.MaxY ELSE r.MaxY]
    IN  IF Empty(t) THEN ZR ELSE t

(***************************************************************************)
(* Slices and the heap.                                                    *)
(***************************************************************************)
NilSlice == [buf |-> "nil", off |-> 0, len |-> 0]

\* s[lo:], the caller has checked 0 <= lo <= s.len
SliceFrom(s, lo) == [buf |-> s.buf, off |-> s.off + lo, len |-> s.len - lo]

InRange(s, i) == i >= 0 /\ i < s.len

Load(m, s, i) == m.heap[s.buf][s.off + i + 1]

Store(m, s, i, by) == [m EXCEPT !.heap[s.buf][s.off + i + 1] = by]

Panic(m) == [m EXCEPT !.panic = TRUE]

(***************************************************************************)
(* Binary: Pix, Stride, Rect.  isNil marks the nil *Binary.                *)
(***************************************************************************)
NilBinary == [isNil |-> TRUE, Pix |-> NilSlice, Stride |-> 0, Rect |-> ZR]

\* NewBinary(w, h), its pixels in the fresh backing array id
NewBinary(m, id, w, h) ==
    IF w <= 0 \/ h <= 0
    THEN [m |-> m, b |-> NilBinary, err |-> "binimg: invalid dimensions"]
    ELSE IF GoMod(w, 8) # 0
    THEN [m |-> m, b |-> NilBinary, err |-> "binimg: width must be a multiple of 8"]
    ELSE LET stride == GoDiv(w, 8) IN
         [m   |-> [m EXCEPT !.heap = (id :> Zeros(stride * h)) @@ m.heap],
          b   |-> [isNil |-> FALSE,
                   Pix |-> [buf |-> id, off |-> 0, len |-> stride * h],
                   Stride |-> stride, Rect |-> Rect(0, 0, w, h)],
          err |-> ""]

pixOffset(b, x, y) == (y - b.Rect.MinY) * b.Stride + GoDiv(x - b.Rect.MinX, 8)

\* byte(0x80 >> (uint(x) & 7))
pixMask(x) == 2 ^ (7 - (x % 8))

bit(m, b, x, y) ==
    LET i == pixOffset(b, x, y) IN
    IF ~InRange(b.Pix, i) THEN [panic |-> TRUE, val |-> FALSE]
    ELSE [panic |-> FALSE, val |-> BitAt(Load(m, b.Pix, i), 7 - (x % 8)) = 1]

\* a setBit that only ever turns pixels on
setBitOnly(m, b, x, y, on) ==
    LET i == pixOffset(b, x, y) IN
    IF m.panic THEN m
    ELSE IF ~InRange(b.Pix, i) THEN Panic(m)
    ELSE Store(m, b.Pix, i, OrMask(Load(m, b.Pix, i), pixMask(x)))

setBit(m, b, x, y, on) ==
    LET i == pixOffset(b, x, y) IN
    IF m.panic THEN m
    ELSE IF ~InRange(b.Pix, i) THEN Panic(m)
    ELSE IF on THEN Store(m, b.Pix, i, OrMask(Load(m, b.Pix, i), pixMask(x)))
    ELSE Store(m, b.Pix, i, AndNotMask(Load(m, b.Pix, i), pixMask(x)))

IsWhite(m, b, x, y) == bit(m, b, x, y)

IsBlack(m, b, x, y) ==
    LET r == bit(m, b, x, y) IN [panic |-> r.panic, val |-> ~r.panic /\ ~r.val]

SetOn(m, b, x, y) == setBit(m, b, x, y, TRUE)

SetOff(m, b, x, y) == setBit(m, b, x, y, FALSE)

\* color.Color values, by their RGBA() components (16 bits each)
Gray(y8) == [r |-> y8 * 257, g |-> y8 * 257, b |-> y8 * 257, a |-> 65535]

Transparent == [r |-> 0, g |-> 0, b |-> 0, a |-> 0]

\* BinaryModel.Convert(c).(color.Gray).Y
BinaryModel(c) ==
    IF c.a = 0 THEN 0
    ELSE IF (299 * c.r + 587 * c.g + 114 * c.b) \div 1000 >= 32768 THEN 255
    ELSE 0

\* At(x, y) as the gray level it returns
At(m, b, x, y) ==
    IF ~In(x, y, b.Rect) THEN [panic |-> FALSE, val |-> 0]
    ELSE LET r == bit(m, b, x, y) IN
         [panic |-> r.panic, val |-> IF r.val THEN 255 ELSE 0]

Set(m, b, x, y, c) ==
    IF ~In(x, y, b.Rect) THEN m
    ELSE setBit(m, b, x, y, BinaryModel(c) >= 128)

SubImage(b, r) ==
    LET q == Intersect(r, b.Rect) IN
    IF Empty(q) THEN [isNil |-> FALSE, Pix |-> NilSlice, Stride |-> 0, Rect |-> q]
    ELSE [isNil |-> FALSE, Pix |-> SliceFrom(b.Pix, pixOffset(b, q.MinX, q.MinY)),
          Stride |-> b.Stride, Rect |-> q]

RECURSIVE fillFrom(_, _, _, _)
fillFrom(m, s, i, by) ==
    IF i >= s.len THEN m ELSE fillFrom(Store(m, s, i, by), s, i + 1, by)

Fill(m, b, on) == fillFrom(m, b.Pix, 0, IF on THEN 255 ELSE 0)

(***************************************************************************)
(* FromGrayThreshold, the method: b is rewritten from a pixel source.      *)
(***************************************************************************)
\* the pixel sources the model draws from: src.At(x, y)
Sources == {"edge", "corner"}

SrcAt(src, x, y) ==
    CASE src = "edge"    -> IF x % 8 = 0 THEN Gray(151)
                            ELSE IF x % 8 = 7 THEN Transparent ELSE Gray(150)
      [] src = "corner"  -> IF x % 8 < 3 /\ y = 0 THEN Gray(200) ELSE Gray(20)

\* uint8(((299*r + 587*g + 114*bl) / 1000) >> 8) >= thresh, off when a == 0
thresholdOn(c, thresh) ==
    IF c.a = 0 THEN FALSE
    ELSE (((299 * c.r + 587 * c.g + 114 * c.b) \div 1000) \div 256) % 256 >= thresh

RECURSIVE zeroRow(_, _, _)
zeroRow(m, row, i) ==
    IF i >= row.len THEN m ELSE zeroRow(Store(m, row, i, 0), row, i + 1)

RECURSIVE thresholdRow(_, _, _, _, _, _, _)
thresholdRow(m, b, row, src, thresh, y, x) ==
    IF m.panic \/ x >= b.Rect.MaxX THEN m
    ELSE IF ~thresholdOn(SrcAt(src, x, y), thresh)
    THEN thresholdRow(m, b, row, src, thresh, y, x + 1)
    ELSE LET i == (x - b.Rect.MinX) \div 8 IN
         IF ~InRange(row, i) THEN Panic(m)
         ELSE thresholdRow(Store(m, row, i, OrMask(Load(m, row, i), pixMask(x))),
                           b, row, src, thresh, y, x + 1)

RECURSIVE thresholdRows(_, _, _, _, _)
thresholdRows(m, b, src, thresh, y) ==
    IF m.panic \/ y >= b.Rect.MaxY THEN m
    ELSE LET lo == (y - b.Rect.MinY) * b.Stride
             hi == (y - b.Rect.MinY + 1) * b.Stride
             row == [buf |-> b.Pix.buf, off |-> b.Pix.off + lo, len |-> hi - lo]
         IN  IF hi > b.Pix.len THEN Panic(m)
             ELSE thresholdRows(thresholdRow(zeroRow(m, row, 0), b, row, src, thresh,
                                             y, b.Rect.MinX),
                                b, src, thresh, y + 1)

FromGrayThreshold(m, b, src, thresh) == thresholdRows(m, b, src, thresh, b.Rect.MinY)

(***************************************************************************)
(* Rotate180.                                                              *)
(***************************************************************************)
\* general path, the row pairs: k runs over (y, x) with y < h/2, x < w
RECURSIVE rotateGeneralRows(_, _, _)
rotateGeneralRows(m, b, k) ==
    LET w == Dx(b.Rect)
        h == Dy(b.Rect)
    IN  IF m.panic \/ k >= GoDiv(h, 2) * w THEN m
        ELSE LET y  == k \div w
                 x  == k % w
                 y1 == b.Rect.MinY + y
                 y2 == b.Rect.MinY + (h - 1 - y)
                 x1 == b.Rect.MinX + x
                 x2 == b.Rect.MinX + (w - 1 - x)
                 b1 == bit(m, b, x1, y1)
                 b2 == bit(m, b, x2, y2)
             IN  IF b1.panic \/ b2.panic THEN Panic(m)
                 ELSE rotateGeneralRows(
                          setBit(setBit(m, b, x1, y1, b2.val), b, x2, y2, b1.val),
                          b, k + 1)

\* general path, the middle row of an odd height: x < w/2
RECURSIVE rotateGeneralMiddle(_, _, _)
rotateGeneralMiddle(m, b, x) ==
    LET w == Dx(b.Rect)
        h == Dy(b.Rect)
    IN  IF m.panic \/ x >= GoDiv(w, 2) THEN m
        ELSE LET y  == b.Rect.MinY + GoDiv(h, 2)
                 x1 == b.Rect.MinX + x
                 x2 == b.Rect.MinX + (w - 1 - x)
                 b1 == bit(m, b, x1, y)
                 b2 == bit(m, b, x2, y)
             IN  IF b1.panic \/ b2.panic THEN Panic(m)
                 ELSE rotateGeneralMiddle(
                          setBit(setBit(m, b, x1, y, b2.val), b, x2, y, b1.val),
                          b, x + 1)

\* fast path, one row pair: row1[i], row2[rowBytes-1-i] for i < rowBytes
RECURSIVE rotateFastPair(_, _, _, _, _, _)
rotateFastPair(m, b, off1, off2, rowBytes, i) ==
    IF i >= rowBytes THEN m
    ELSE LET j == rowBytes - 1 - i
             a == Load(m, b.Pix, off1 + i)
             c == Load(m, b.Pix, off2 + j)
         IN  rotateFastPair(
                 Store(Store(m, b.Pix, off1 + i, Reverse8(c)), b.Pix, off2 + j, Reverse8(a)),
                 b, off1, off2, rowBytes, i + 1)

\* fast path, the row pairs y < h/2; slicing a row past the end of Pix panics
RECURSIVE rotateFastRows(_, _, _, _)
rotateFastRows(m, b, rowBytes, y) ==
    LET h == Dy(b.Rect) IN
    IF m.panic \/ y >= GoDiv(h, 2) THEN m
    ELSE LET off1 == y * b.Stride
             off2 == (h - 1 - y) * b.Stride
         IN  IF off1 + rowBytes > b.Pix.len \/ off2 + rowBytes > b.Pix.len THEN Panic(m)
             ELSE rotateFastRows(rotateFastPair(m, b, off1, off2, rowBytes, 0),
                                 b, rowBytes, y + 1)

\* fast path, the middle row reversed in place: i < rowBytes/2
RECURSIVE rotateFastMiddleSwap(_, _, _, _, _)
rotateFastMiddleSwap(m, b, off, rowBytes, i) ==
    IF i >= GoDiv(rowBytes, 2) THEN m
    ELSE LET j == rowBytes - 1 - i
             a == Load(m, b.Pix, off + i)
         IN  rotateFastMiddleSwap(
                 Store(Store(m, b.Pix, off + i, Reverse8(Load(m, b.Pix, off + j))),
                       b.Pix, off + j, Reverse8(a)),
                 b, off, rowBytes, i + 1)

rotateFastMiddle(m, b, rowBytes) ==
    LET h   == Dy(b.Rect)
        off == GoDiv(h, 2) * b.Stride
        mid == GoDiv(rowBytes, 2)
    IN  IF m.panic \/ GoMod(h, 2) # 1 THEN m
        ELSE IF off + rowBytes > b.Pix.len THEN Panic(m)
        ELSE LET m1 == rotateFastMiddleSwap(m, b, off, rowBytes, 0) IN
             IF GoMod(rowBytes, 2) = 1
             THEN Store(m1, b.Pix, off + mid, Reverse8(Load(m1, b.Pix, off + mid)))
             ELSE m1

Rotate180(m, b) ==
    LET w == Dx(b.Rect)
        h == Dy(b.Rect)
        rowBytes == (w + 7) \div 8
    IN  IF w <= 1 /\ h <= 1 THEN m
        ELSE IF rowBytes <= 0 THEN m
        ELSE IF b.Rect.MinX % 8 # 0 \/ w % 8 # 0
        THEN LET m1 == rotateGeneralRows(m, b, 0) IN
             IF GoMod(h, 2) = 1 THEN rotateGeneralMiddle(m1, b, 0) ELSE m1
        ELSE rotateFastMiddle(rotateFastRows(m, b, rowBytes, 0), b, rowBytes)

(***************************************************************************)
(* Text: fmt.Sprintf("%d"), fmt.Sprintf("%.1f") and fmt.Sscanf over byte   *)
(* strings.                                                                *)
(***************************************************************************)
Comma == 44

\* "BITMAP"
BitmapWord == <<66, 73, 84, 77, 65, 80>>

\* "BITMAP 0,0,"
BitmapLead == <<66, 73, 84, 77, 65, 80, 32, 48, 44, 48, 44>>

\* ",1,"
BitmapModeTail == <<44, 49, 44>>

\* "SET CUTTER OFF\r\nSET PARTICAL_CUTTER OFF\r\nSET PEEL "
SetupLead ==
    <<83, 69, 84, 32, 67, 85, 84, 84, 69, 82, 32, 79, 70, 70, 13, 10,
      83, 69, 84, 32, 80, 65, 82, 84, 73, 67, 65, 76, 95, 67, 85, 84, 84, 69, 82, 32,
      79, 70, 70, 13, 10, 83, 69, 84, 32, 80, 69, 69, 76, 32>>

\* "ON" and "OFF"
PeelOn == <<79, 78>>

PeelOff == <<79, 70, 70>>

\* "\r\nSIZE "
SizeLead == <<13, 10, 83, 73, 90, 69, 32>>

\* " mm, "
SizeMid == <<32, 109, 109, 44, 32>>

\* " mm\r\nCLS\r\n"
SizeTail == <<32, 109, 109, 13, 10, 67, 76, 83, 13, 10>>

\* "PRINT 1,1\r\n"
PrintTail == <<80, 82, 73, 78, 84, 32, 49, 44, 49, 13, 10>>

RECURSIVE digitsOf(_)
digitsOf(n) == IF n < 10 THEN <<48 + n>> ELSE Append(digitsOf(n \div 10), 48 + (n % 10))

\* %d
FormatInt(n) == IF n < 0 THEN <<45>> \o digitsOf(-n) ELSE digitsOf(n)

\* %.1f of float64(n)/float64(d) for n >= 0 and d a power of two, where the
\* quotient is exact: tenths rounded to nearest, ties to even
FormatF1(n, d) ==
    LET q   == (10 * n) \div d
        rem == (10 * n) % d
        t   == IF 2 * rem > d THEN q + 1
               ELSE IF 2 * rem = d THEN q + (q % 2)
               ELSE q
    IN  FormatInt(t \div 10) \o <<46, 48 + (t % 10)>>

\* the scanner's isSpace, on the ASCII bytes
isSpace(c) == c \in {9, 10, 11, 12, 13, 32}

isDigit(c) == c >= 48 /\ c <= 57

\* ss.SkipSpace: a newline is an error in Sscanf
RECURSIVE skipSpace(_, _)
skipSpace(s, p) ==
    IF p >= Len(s) THEN [p |-> p, err |-> ""]
    ELSE IF s[p + 1] = 10 THEN [p |-> p, err |-> "unexpected newline"]
    ELSE IF ~isSpace(s[p + 1]) THEN [p |-> p, err |-> ""]
    ELSE skipSpace(s, p + 1)

\* the run of digits (and underscores) scanNumber accepts
RECURSIVE numberEnd(_, _)
numberEnd(s, p) ==
    IF p < Len(s) /\ (isDigit(s[p + 1]) \/ s[p + 1] = 95) THEN numberEnd(s, p + 1) ELSE p

\* strconv.ParseInt(tok, 10, 64) on a run of digits; the model's numbers are
\* far below the 64-bit range
RECURSIVE parseDigits(_, _, _, _)
parseDigits(s, p, q, acc) ==
    IF p >= q THEN acc ELSE parseDigits(s, p + 1, q, acc * 10 + (s[p + 1] - 48))

\* ss.scanInt for the verb d
scanInt(s, p0) ==
    LET sp == skipSpace(s, p0) IN
    IF sp.err # "" THEN [p |-> sp.p, err |-> sp.err, val |-> 0]
    ELSE IF sp.p >= Len(s) THEN [p |-> sp.p, err |-> "unexpected EOF", val |-> 0]
    ELSE LET signed == s[sp.p + 1] \in {43, 45}
             neg    == s[sp.p + 1] = 45
             p1     == IF signed THEN sp.p + 1 ELSE sp.p
             p2     == numberEnd(s, p1)
         IN  IF p1 >= Len(s) THEN [p |-> p1, err |-> "unexpected EOF", val |-> 0]
             ELSE IF p2 = p1 THEN [p |-> p1, err |-> "expected integer", val |-> 0]
             ELSE IF \E i \in p1 + 1 .. p2 : s[i] = 95
             THEN [p |-> p2, err |-> "invalid syntax", val |-> 0]
             ELSE [p |-> p2, err |-> "",
                   val |-> IF neg THEN -parseDigits(s, p1, p2, 0)
                           ELSE parseDigits(s, p1, p2, 0)]

\* ss.advance over literal bytes of the format
RECURSIVE scanLiteral(_, _, _, _)
scanLiteral(s, p, lit, k) ==
    IF k > Len(lit) THEN [p |-> p, err |-> ""]
    ELSE IF p >= Len(s) THEN [p |-> p, err |-> "unexpected EOF"]
    ELSE IF s[p + 1] # lit[k] THEN [p |-> p, err |-> "input does not match format"]
    ELSE scanLiteral(s, p + 1, lit, k + 1)

\* the run of spaces (not newlines) a space of the format consumes
RECURSIVE spaceRunEnd(_, _)
spaceRunEnd(s, p) ==
    IF p < Len(s) /\ isSpace(s[p + 1]) /\ s[p + 1] # 10 THEN spaceRunEnd(s, p + 1) ELSE p

\* ss.advance over the single space of the format
scanFormatSpace(s, p) ==
    IF p >= Len(s) THEN [p |-> p, err |-> ""]
    ELSE IF ~isSpace(s[p + 1]) THEN [p |-> p, err |-> "expected space in input to match format"]
    ELSE IF s[p + 1] = 10 THEN [p |-> p, err |-> "newline in input does not match format"]
    ELSE [p |-> spaceRunEnd(s, p), err |-> ""]

\* "%d," repeated: the fields still to scan are n
RECURSIVE scanFields(_, _, _, _)
scanFields(s, p, n, vals) ==
    IF n = 0 THEN [err |-> "", vals |-> vals]
    ELSE LET f == scanInt(s, p) IN
         IF f.err # "" THEN [err |-> f.err, vals |-> vals]
         ELSE LET c == scanLiteral(s, f.p, <<Comma>>, 1) IN
              IF c.err # "" THEN [err |-> c.err, vals |-> vals]
              ELSE scanFields(s, c.p, n - 1, Append(vals, f.val))

\* fmt.Sscanf(string(body), "BITMAP %d,%d,%d,%d,%d,", &x, &y, &rowBytes, &height, &mode)
Sscanf(s) ==
    LET w == scanLiteral(s, 0, BitmapWord, 1) IN
    IF w.err # "" THEN [err |-> w.err, vals |-> <<>>]
    ELSE LET sp == scanFormatSpace(s, w.p) IN
         IF sp.err # "" THEN [err |-> sp.err, vals |-> <<>>]
         ELSE scanFields(s, sp.p, 5, <<>>)

(***************************************************************************)
(* The codec: Header, Image2Bytes, Encode, ParseBitmapHeader, Bytes2Image. *)
(***************************************************************************)
Header(w, h, dpm0, peel) ==
    LET dpm == IF dpm0 # 0 THEN dpm0 ELSE 8 IN
    SetupLead \o (IF peel THEN PeelOn ELSE PeelOff) \o SizeLead
        \o FormatF1(w, dpm) \o SizeMid \o FormatF1(h, dpm) \o SizeTail

\* the pixel loop of Image2Bytes: k runs over (y, x), y < height, x < width
RECURSIVE packPixels(_, _, _, _, _, _)
packPixels(m, b, bitmap, headerSize, rowBytes, k) ==
    LET width  == Dx(b.Rect)
        height == Dy(b.Rect)
    IN  IF k >= width * height THEN [panic |-> FALSE, bitmap |-> bitmap]
        ELSE LET y  == k \div width
                 x  == k % width
                 px == IsWhite(m, b, x, y)
                 byteIndex == headerSize + y * rowBytes + GoDiv(x, 8)
                 bitIndex  == 7 - GoMod(x, 8)
             IN  IF px.panic THEN [panic |-> TRUE, bitmap |-> bitmap]
                 ELSE IF px.val
                 THEN packPixels(m, b,
                          [bitmap EXCEPT ![byteIndex + 1] = OrMask(@, 2 ^ bitIndex)],
                          headerSize, rowBytes, k + 1)
                 ELSE packPixels(m, b, bitmap, headerSize, rowBytes, k + 1)

\* Image2Bytes of a *bin_img.Binary
Image2Bytes(m, b) ==
    LET width    == Dx(b.Rect)
        height   == Dy(b.Rect)
        rowBytes == GoDiv(width + 7, 8)
        header   == BitmapLead \o FormatInt(rowBytes) \o <<Comma>> \o FormatInt(height)
                        \o BitmapModeTail
        headerSize == Len(header)
        r == packPixels(m, b, header \o Zeros(rowBytes * height), headerSize, rowBytes, 0)
    IN  [panic |-> r.panic, headerSize |-> headerSize, bitmap |-> r.bitmap]

Encode(m, w, h, dpm, b, peel) ==
    LET r == Image2Bytes(m, b) IN
    [panic |-> r.panic, res |-> Header(w, h, dpm, peel) \o r.bitmap \o PrintTail]

\* bytes.HasPrefix(body, []byte("BITMAP"))
HasPrefix(body, prefix) ==
    Len(body) >= Len(prefix) /\ SubSeq(body, 1, Len(prefix)) = prefix

\* a comma scan that does not stop at the fifth comma: the index of the last
lastComma(body, i, commaCount) ==
    LET commas == {j \in 1 .. Len(body) : body[j] = Comma} IN
    IF Cardinality(commas) < 5 THEN -1
    ELSE (CHOOSE j \in commas : \A k \in commas : k <= j) - 1

\* the comma scan of ParseBitmapHeader: the index of the fifth comma, or -1
RECURSIVE fifthComma(_, _, _)
fifthComma(body, i, commaCount) ==
    IF i >= Len(body) THEN -1
    ELSE IF body[i + 1] = Comma
    THEN IF commaCount + 1 = 5 THEN i ELSE fifthComma(body, i + 1, commaCount + 1)
    ELSE fifthComma(body, i + 1, commaCount)

NoHeader == [isNil |-> TRUE, RowBytes |-> 0, Width |-> 0, Height |-> 0, HeaderEnd |-> 0]

ParseBitmapHeader(body) ==
    IF ~HasPrefix(body, BitmapWord) THEN [err |-> "not a BITMAP line", h |-> NoHeader]
    ELSE LET headerEnd == fifthComma(body, 0, 0) IN
         IF headerEnd = -1 THEN [err |-> "invalid BITMAP format", h |-> NoHeader]
         ELSE LET sc == Sscanf(body) IN
              IF sc.err # "" THEN [err |-> sc.err, h |-> NoHeader]
              ELSE [err |-> "",
                    h   |-> [isNil |-> FALSE, RowBytes |-> sc.vals[3],
                             Width |-> sc.vals[3] * 8, Height |-> sc.vals[4],
                             HeaderEnd |-> headerEnd + 1]]

\* a decode that takes the pixels of a byte least-significant bit first
payloadBitLsbFirst(body, byteIndex, x) == BitAt(body[byteIndex + 1], GoMod(x, 8))

\* (body[byteIndex] >> bitIndex) & 1, bitIndex = 7 - (x % 8)
payloadBit(body, byteIndex, x) == BitAt(body[byteIndex + 1], 7 - GoMod(x, 8))

\* the pixel loop of Bytes2Image; st carries the machine and bodyEnd
RECURSIVE unpackPixels(_, _, _, _, _)
unpackPixels(st, b, body, h, k) ==
    IF st.m.panic \/ k >= h.Width * h.Height THEN st
    ELSE LET y == k \div h.Width
             x == k % h.Width
             byteIndex == h.HeaderEnd + y * h.RowBytes + GoDiv(x, 8)
         IN  IF byteIndex >= Len(body) THEN unpackPixels(st, b, body, h, k + 1)
             ELSE unpackPixels(
                      [m |-> IF payloadBit(body, byteIndex, x) = 0
                             THEN SetOff(st.m, b, x, y) ELSE SetOn(st.m, b, x, y),
                       bodyEnd |-> byteIndex],
                      b, body, h, k + 1)

NoImage == [Header |-> <<>>, Bitmap |-> NilBinary, Tail |-> <<>>]

\* Bytes2Image; the decoded image is allocated in the backing array id
Bytes2Image(m, id, body) ==
    LET \* the return: body[bodyEnd+1:] panics when bodyEnd+1 > len(body)
        result(h, b, st) ==
            IF st.m.panic THEN [m |-> st.m, err |-> "", image |-> NoImage]
            ELSE IF st.bodyEnd + 1 > Len(body)
            THEN [m |-> Panic(st.m), err |-> "", image |-> NoImage]
            ELSE [m |-> st.m, err |-> "",
                  image |-> [Header |-> SubSeq(body, 1, h.HeaderEnd),
                             Bitmap |-> b,
                             Tail   |-> SubSeq(body, st.bodyEnd + 2, Len(body))]]
        \* img, err := bin_img.NewBinary(width, height), then the pixel loop
        decodeInto(h, nb) ==
            IF nb.err # "" THEN [m |-> m, err |-> nb.err, image |-> NoImage]
            ELSE result(h, nb.b,
                        unpackPixels([m |-> nb.m, bodyEnd |-> h.HeaderEnd], nb.b, body, h, 0))
        \* h, err := t.ParseBitmapHeader(body)
        decodeParsed(p) ==
            IF p.err # "" THEN [m |-> m, err |-> p.err, image |-> NoImage]
            ELSE IF p.h.Width <= 0 \/ p.h.Height <= 0
            THEN [m |-> m, err |-> "invalid image size", image |-> NoImage]
            ELSE decodeInto(p.h, NewBinary(m, id, p.h.Width, p.h.Height))
    IN  decodeParsed(ParseBitmapHeader(body))

(***************************************************************************)
(* The overlay: OverlayBinary and setBitmapBit.  base is a slice of the    *)
(* heap; the result is allocated in the backing array id.                  *)
(***************************************************************************)
SliceBytes(m, s) == [i \in 1 .. s.len |-> m.heap[s.buf][s.off + i]]

\* a setBitmapBit that sets bits and never clears them
setBitmapBitOrOnly(m, body, headerEnd, rowBytes, x, y, bitv) ==
    LET byteIndex == headerEnd + y * rowBytes + GoDiv(x, 8)
        mask      == 2 ^ (7 - GoMod(x, 8))
    IN  IF m.panic THEN m
        ELSE IF ~InRange(body, byteIndex) THEN Panic(m)
        ELSE IF bitv = 0 THEN m
        ELSE Store(m, body, byteIndex, OrMask(Load(m, body, byteIndex), mask))

setBitmapBit(m, body, headerEnd, rowBytes, x, y, bitv) ==
    LET byteIndex == headerEnd + y * rowBytes + GoDiv(x, 8)
        mask      == 2 ^ (7 - GoMod(x, 8))
    IN  IF m.panic THEN m
        ELSE IF ~InRange(body, byteIndex) THEN Panic(m)
        ELSE IF bitv = 0
        THEN Store(m, body, byteIndex, AndNotMask(Load(m, body, byteIndex), mask))
        ELSE Store(m, body, byteIndex, OrMask(Load(m, body, byteIndex), mask))

\* a validation that tests the overlay's fit before the base's length
overlayCheckFitFirst(m, baseHeader, base, overlay, xOff, yOff) ==
    LET ovW == Dx(overlay.Rect)
        ovH == Dy(overlay.Rect)
        \* the checks made once the header p is at hand
        withHeader(p) ==
            IF p.err # "" THEN [err |-> p.err, h |-> NoHeader]
            ELSE IF ovW <= 0 \/ ovH <= 0
            THEN [err |-> "invalid overlay size", h |-> NoHeader]
            ELSE IF xOff + ovW > p.h.Width \/ yOff + ovH > p.h.Height
            THEN [err |-> "overlay out of bounds", h |-> NoHeader]
            ELSE IF p.h.HeaderEnd + p.h.RowBytes * p.h.Height > base.len
            THEN [err |-> "base body too short", h |-> NoHeader]
            ELSE [err |-> "", h |-> p.h]
    IN  IF overlay.isNil THEN [err |-> "overlay is nil", h |-> NoHeader]
        ELSE IF xOff < 0 \/ yOff < 0 THEN [err |-> "xOff/yOff must be >= 0", h |-> NoHeader]
        ELSE IF base.len = 0 THEN [err |-> "base is empty", h |-> NoHeader]
        ELSE withHeader(IF baseHeader.isNil THEN ParseBitmapHeader(SliceBytes(m, base))
                        ELSE [err |-> "", h |-> baseHeader])

\* the validation of OverlayBinary: the first failure, or the header to use
overlayCheck(m, baseHeader, base, overlay, xOff, yOff) ==
    LET ovW == Dx(overlay.Rect)
        ovH == Dy(overlay.Rect)
        \* the checks made once the header p is at hand
        withHeader(p) ==
            IF p.err # "" THEN [err |-> p.err, h |-> NoHeader]
            ELSE IF p.h.HeaderEnd + p.h.RowBytes * p.h.Height > base.len
            THEN [err |-> "base body too short", h |-> NoHeader]
            ELSE IF ovW <= 0 \/ ovH <= 0
            THEN [err |-> "invalid overlay size", h |-> NoHeader]
            ELSE IF xOff + ovW > p.h.Width \/ yOff + ovH > p.h.Height
            THEN [err |-> "overlay out of bounds", h |-> NoHeader]
            ELSE [err |-> "", h |-> p.h]
    IN  IF overlay.isNil THEN [err |-> "overlay is nil", h |-> NoHeader]
        ELSE IF xOff < 0 \/ yOff < 0 THEN [err |-> "xOff/yOff must be >= 0", h |-> NoHeader]
        ELSE IF base.len = 0 THEN [err |-> "base is empty", h |-> NoHeader]
        ELSE withHeader(IF baseHeader.isNil THEN ParseBitmapHeader(SliceBytes(m, base))
                        ELSE [err |-> "", h |-> baseHeader])

\* a result that is the base itself, not a copy of it
aliasBase(m, id, base) == [m |-> m, res |-> base]

\* res := make([]byte, len(base)); copy(res, base)
copyBase(m, id, base) ==
    [m   |-> [m EXCEPT !.heap = (id :> SliceBytes(m, base)) @@ m.heap],
     res |-> [buf |-> id, off |-> 0, len |-> base.len]]

\* the inner loop of OverlayBinary: row y of the overlay, from column x on
RECURSIVE overlayRow(_, _, _, _, _, _, _, _)
overlayRow(m, res, h, overlay, xOff, yOff, y, x) ==
    IF m.panic \/ x >= Dx(overlay.Rect) THEN m
    ELSE LET px == IsWhite(m, overlay, x + overlay.Rect.MinX, y + overlay.Rect.MinY) IN
         IF px.panic THEN Panic(m)
         ELSE overlayRow(
                  setBitmapBit(m, res, h.HeaderEnd, h.RowBytes, x + xOff, y + yOff,
                               IF px.val THEN 1 ELSE 0),
                  res, h, overlay, xOff, yOff, y, x + 1)

\* the outer loop of OverlayBinary: the rows of the overlay from y on
RECURSIVE overlayPixels(_, _, _, _, _, _, _)
overlayPixels(m, res, h, overlay, xOff, yOff, y) ==
    IF m.panic \/ y >= Dy(overlay.Rect) THEN m
    ELSE overlayPixels(overlayRow(m, res, h, overlay, xOff, yOff, y, 0),
                       res, h, overlay, xOff, yOff, y + 1)

OverlayBinary(m, id, baseHeader, base, overlay, xOff, yOff) ==
    LET patched(res, m1) == [m |-> m1, res |-> IF m1.panic THEN NilSlice ELSE res, err |-> ""]
        copied(h, cp) ==
            patched(cp.res, overlayPixels(cp.m, cp.res, h, overlay, xOff, yOff, 0))
        checked(c) ==
            IF c.err # "" THEN [m |-> m, res |-> NilSlice, err |-> c.err]
            ELSE copied(c.h, copyBase(m, id, base))
    IN  checked(overlayCheck(m, baseHeader, base, overlay, xOff, yOff))

(***************************************************************************)
(* The image machine: a fresh image B, a sub-view S of it, and the         *)
(* operations a caller applies to either.                                  *)
(***************************************************************************)
M == [heap |-> heap, panic |-> panicked]

EmptyHeap == [id \in {} |-> <<>>]

NoOut == [op |-> "none"]

\* (w, h) of the images NewBinary allocates
ImgDims == {<<16, 3>>, <<24, 1>>}

\* the rectangles handed to SubImage: unaligned, aligned, odd and even sizes,
\* 1xN and Nx1, one reaching past the parent and one outside it
SubRects ==
    {Rect(3, 0, 11, 3), Rect(3, 1, 8, 3), Rect(0, 0, 1, 3), Rect(2, 0, 15, 1),
     Rect(5, 1, 6, 2), Rect(0, 0, 7, 3), Rect(8, 0, 16, 3), Rect(0, 1, 16, 3),
     Rect(8, 1, 30, 5), Rect(40, 0, 50, 2)}

\* the colours handed to Set
Colors == {Gray(128), Gray(127), Transparent}

\* coordinates handed to Set: the parent's pixels and a margin around them
SetXs(b) == (b.Rect.MinX - 1) .. b.Rect.MaxX

SetYs(b) == (b.Rect.MinY - 1) .. b.Rect.MaxY

\* coordinates read back through IsWhite and IsBlack
ProbeXs == -1 .. 17

ProbeYs == -1 .. 3

Live(v) == ~img[v].isNil

Drawing == phase \in {"new", "draw"}

InitImg ==
    /\ \E d \in ImgDims :
          LET r == NewBinary([heap |-> EmptyHeap, panic |-> FALSE], "B", d[1], d[2]) IN
          /\ heap = r.m.heap
          /\ img = [A |-> NilBinary, B |-> r.b, S |-> NilBinary, D |-> NilBinary]
    /\ panicked = FALSE
    /\ phase = "new"
    /\ nSets = 0
    /\ inp = "image"
    /\ out = NoOut

\* B.FromGrayThreshold(src, 151), before anything else is drawn
Threshold(src) ==
    /\ phase = "new"
    /\ LET m == FromGrayThreshold(M, img["B"], src, 151) IN
       /\ heap' = m.heap
       /\ panicked' = m.panic
    /\ phase' = "draw"
    /\ UNCHANGED <<img, nSets, inp, out>>

\* S := B.SubImage(r)
MkSub(r) ==
    /\ Drawing
    /\ ~panicked
    /\ ~Live("S")
    /\ img' = [img EXCEPT !["S"] = SubImage(img["B"], r)]
    /\ phase' = "draw"
    /\ UNCHANGED <<heap, panicked, nSets, inp, out>>

\* v.Set(x, y, c)
SetPix(v, x, y, c) ==
    /\ Drawing
    /\ ~panicked
    /\ Live(v)
    /\ nSets < MaxSets
    /\ LET m == Set(M, img[v], x, y, c) IN
       /\ heap' = m.heap
       /\ panicked' = m.panic
    /\ nSets' = nSets + 1
    /\ phase' = "draw"
    /\ UNCHANGED <<img, inp, out>>

\* v.Rotate180(), the first call
RotateOnce(v) ==
    /\ Drawing
    /\ ~panicked
    /\ Live(v)
    /\ LET m == Rotate180(M, img[v]) IN
       /\ heap' = m.heap
       /\ panicked' = m.panic
       /\ out' = [op |-> "rot", v |-> v, n |-> 1, pre |-> heap, mid |-> m.heap]
    /\ phase' = "rot"
    /\ UNCHANGED <<img, nSets, inp>>

\* v.Rotate180() again on the view just rotated
RotateAgain ==
    /\ phase = "rot"
    /\ ~panicked
    /\ out.n = 1
    /\ LET m == Rotate180(M, img[out.v]) IN
       /\ heap' = m.heap
       /\ panicked' = m.panic
    /\ out' = [out EXCEPT !.n = 2]
    /\ phase' = "done"
    /\ UNCHANGED <<img, nSets, inp>>

\* v.IsWhite(x, y) and v.IsBlack(x, y) for every coordinate of the window
ProbeAll(v) ==
    /\ Drawing
    /\ ~panicked
    /\ Live(v)
    /\ out' = [op    |-> "probe", v |-> v,
               white |-> [c \in ProbeXs \X ProbeYs |-> IsWhite(M, img[v], c[1], c[2])],
               black |-> [c \in ProbeXs \X ProbeYs |-> IsBlack(M, img[v], c[1], c[2])]]
    /\ phase' = "done"
    /\ UNCHANGED <<heap, img, panicked, nSets, inp>>

NextImg ==
    \/ \E src \in Sources : Threshold(src)
    \/ \E r \in SubRects : MkSub(r)
    \/ \E v \in {"B", "S"} : \E x \in SetXs(img[v]), y \in SetYs(img[v]), c \in Colors :
          SetPix(v, x, y, c)
    \/ \E v \in {"B", "S"} : RotateOnce(v)
    \/ RotateAgain

SpecImg == InitImg /\ [][NextImg]_vars

NextProbe ==
    \/ \E src \in Sources : Threshold(src)
    \/ \E r \in SubRects : MkSub(r)
    \/ \E v \in {"B", "S"} : \E x \in SetXs(img[v]), y \in SetYs(img[v]), c \in Colors :
          SetPix(v, x, y, c)
    \/ \E v \in {"B", "S"} : ProbeAll(v)

SpecProbe == InitImg /\ [][NextProbe]_vars

(***************************************************************************)
(* The rotation pair: the same pattern written into a fresh image A and    *)
(* through an unaligned sub-view S of the larger image B, then both        *)
(* rotated.                                                                *)
(***************************************************************************)
\* (w, h) of the fresh image A
PairDims == {<<8, 1>>, <<16, 2>>, <<16, 3>>}

\* origins of the sub-view S in B, X not a multiple of 8
PairOrigins == {<<3, 0>>, <<5, 1>>}

InitPair ==
    /\ \E d \in PairDims :
          LET ra == NewBinary([heap |-> EmptyHeap, panic |-> FALSE], "A", d[1], d[2])
              rb == NewBinary(ra.m, "B", 24, 3)
          IN  /\ heap = rb.m.heap
              /\ img = [A |-> ra.b, B |-> rb.b, S |-> NilBinary, D |-> NilBinary]
              /\ out = [op |-> "pair", rot |-> [A |-> FALSE, S |-> FALSE],
                        P |-> [c \in (0 .. d[1] - 1) \X (0 .. d[2] - 1) |-> FALSE]]
    /\ panicked = FALSE
    /\ phase = "new"
    /\ nSets = 0
    /\ inp = "pair"

\* S := B.SubImage(r), r of A's size at an unaligned origin
MkSubPair(o) ==
    /\ phase = "new"
    /\ ~Live("S")
    /\ LET s == SubImage(img["B"], Rect(o[1], o[2], o[1] + Dx(img["A"].Rect),
                                        o[2] + Dy(img["A"].Rect)))
       IN  /\ Dx(s.Rect) = Dx(img["A"].Rect)
           /\ Dy(s.Rect) = Dy(img["A"].Rect)
           /\ img' = [img EXCEPT !["S"] = s]
    /\ phase' = "draw"
    /\ UNCHANGED <<heap, panicked, nSets, inp, out>>

\* pixel (x, y) of the pattern: A.Set(x, y, c) and S.Set(S.minX+x, S.minY+y, c)
WriteBoth(x, y, on) ==
    /\ phase = "draw"
    /\ ~panicked
    /\ nSets < MaxWrites
    /\ \E c \in {IF on THEN Gray(255) ELSE Gray(0)} :
          \E m1 \in {Set(M, img["A"], x, y, c)} :
             \E m2 \in {Set(m1, img["S"], img["S"].Rect.MinX + x, img["S"].Rect.MinY + y, c)} :
                /\ heap' = m2.heap
                /\ panicked' = m2.panic
    /\ out' = [out EXCEPT !.P[<<x, y>>] = on]
    /\ nSets' = nSets + 1
    /\ UNCHANGED <<img, phase, inp>>

\* v.Rotate180(), once for each of A and S
RotatePair(v) ==
    /\ phase \in {"draw", "rot"}
    /\ ~panicked
    /\ ~out.rot[v]
    /\ \E m \in {Rotate180(M, img[v])} :
          /\ heap' = m.heap
          /\ panicked' = m.panic
    /\ out' = [out EXCEPT !.rot[v] = TRUE]
    /\ phase' = "rot"
    /\ UNCHANGED <<img, nSets, inp>>

NextPair ==
    \/ \E o \in PairOrigins : MkSubPair(o)
    \/ \E x \in 0 .. Dx(img["A"].Rect) - 1, y \in 0 .. Dy(img["A"].Rect) - 1,
          on \in BOOLEAN : WriteBoth(x, y, on)
    \/ \E v \in {"A", "S"} : RotatePair(v)

SpecPair == InitPair /\ [][NextPair]_vars

(***************************************************************************)
(* ParseBitmapHeader applied to header lines, whole and damaged.           *)
(***************************************************************************)
\* "BITMAP <x>,<y>,<r>,<h>,<m>,"
CanonHeader(f) ==
    BitmapWord \o <<32>> \o FormatInt(f[1]) \o <<Comma>> \o FormatInt(f[2]) \o <<Comma>>
        \o FormatInt(f[3]) \o <<Comma>> \o FormatInt(f[4]) \o <<Comma>>
        \o FormatInt(f[5]) \o <<Comma>>

\* the five fields of the well-formed lines
CanonFields == {0, 7} \X {0, 12} \X {-1, 0, 1, 3, 12, 104} \X {-3, 0, 2, 10} \X {0, 1}

\* the payload bytes after the line, commas among them
ParsePayloads ==
    {<<>>, <<0>>, <<Comma>>, <<255, Comma, 49>>, <<Comma, Comma, Comma, Comma, Comma, Comma>>,
     <<13, 10, 80>>}

\* damaged lines: every proper prefix of a well-formed line, alone and
\* followed by commas, and lines that differ from the format in one place
DamagedLines ==
    LET whole == CanonHeader(<<0, 0, 3, 10, 1>>) IN
    {SubSeq(whole, 1, k) : k \in 0 .. Len(whole) - 1}
    \cup {SubSeq(whole, 1, k) \o <<Comma, Comma, Comma, Comma, Comma>> : k \in 0 .. Len(whole) - 1}
    \cup {PrintTail, Header(100, 50, 0, FALSE) \o whole,
     \* "BITMAP0,0,3,10,1,"
     <<66, 73, 84, 77, 65, 80, 48, 44, 48, 44, 51, 44, 49, 48, 44, 49, 44>>,
     \* "BITMAP  0, 0,+3,10,1,"
     <<66, 73, 84, 77, 65, 80, 32, 32, 48, 44, 32, 48, 44, 43, 51, 44, 49, 48, 44, 49, 44>>,
     \* "BITMAP 0,0,x,10,1,"
     <<66, 73, 84, 77, 65, 80, 32, 48, 44, 48, 44, 120, 44, 49, 48, 44, 49, 44>>,
     \* "BITMAP 0,0,1_0,2,1,"
     <<66, 73, 84, 77, 65, 80, 32, 48, 44, 48, 44, 49, 95, 48, 44, 50, 44, 49, 44>>,
     \* "bitmap 0,0,3,10,1,"
     <<98, 105, 116, 109, 97, 112, 32, 48, 44, 48, 44, 51, 44, 49, 48, 44, 49, 44>>,
     \* " BITMAP 0,0,3,10,1,"
     <<32, 66, 73, 84, 77, 65, 80, 32, 48, 44, 48, 44, 51, 44, 49, 48, 44, 49, 44>>,
     \* "BITMAP\n0,0,3,10,1,"
     <<66, 73, 84, 77, 65, 80, 10, 48, 44, 48, 44, 51, 44, 49, 48, 44, 49, 44>>,
     \* "BITMAP 0,0,3;10,1,,,"
     <<66, 73, 84, 77, 65, 80, 32, 48, 44, 48, 44, 51, 59, 49, 48, 44, 49, 44, 44, 44>>,
     \* "BITMAP 0,0,-,10,1,"
     <<66, 73, 84, 77, 65, 80, 32, 48, 44, 48, 44, 45, 44, 49, 48, 44, 49, 44>>,
     \* "BITMAP 0,\n0,3,10,1,"
     <<66, 73, 84, 77, 65, 80, 32, 48, 44, 10, 48, 44, 51, 44, 49, 48, 44, 49, 44>>,
     \* "BITMAP\t0,0,3,10,1,"
     <<66, 73, 84, 77, 65, 80, 9, 48, 44, 48, 44, 51, 44, 49, 48, 44, 49, 44>>,
     \* "BITMAP 0,0,,,,"
     <<66, 73, 84, 77, 65, 80, 32, 48, 44, 48, 44, 44, 44, 44>>}

ParseInputs ==
    {[form |-> "canon", f |-> f, pay |-> pay, body |-> CanonHeader(f) \o pay] :
        f \in CanonFields, pay \in ParsePayloads}
    \cup {[form |-> "damaged", f |-> <<>>, pay |-> <<>>, body |-> b] : b \in DamagedLines}

InitParse ==
    /\ heap = EmptyHeap
    /\ img = [A |-> NilBinary, B |-> NilBinary, S |-> NilBinary, D |-> NilBinary]
    /\ panicked = FALSE
    /\ phase = "new"
    /\ nSets = 0
    /\ inp \in ParseInputs
    /\ out = NoOut

\* ParseBitmapHeader(body)
DoParse ==
    /\ phase = "new"
    /\ out' = [op |-> "parse", res |-> ParseBitmapHeader(inp.body)]
    /\ phase' = "done"
    /\ UNCHANGED <<heap, img, panicked, nSets, inp>>

NextParse == DoParse

SpecParse == InitParse /\ [][NextParse]_vars

(***************************************************************************)
(* Bytes2Image applied to a BITMAP line with a whole or truncated payload. *)
(***************************************************************************)
\* (rowBytes, height) of the decoded lines
DecodeDims == {<<1, 1>>, <<1, 2>>, <<2, 1>>, <<2, 2>>}

\* the values of a payload byte
PayBytes == {0, 44, 165, 255}

\* a line for d = (rowBytes, height), the first n bytes of its payload pay,
\* and the bytes that follow a whole payload
DecodeInput(d, pay, n, tail) ==
    [r |-> d[1], h |-> d[2], pay |-> pay, n |-> n, tail |-> tail,
     body |-> CanonHeader(<<0, 0, d[1], d[2], 1>>) \o SubSeq(pay, 1, n) \o tail]

DecodeInputs ==
    UNION {{DecodeInput(d, pay, n, <<>>) : pay \in [1 .. d[1] * d[2] -> PayBytes],
                                           n \in 0 .. d[1] * d[2]}
           \cup {DecodeInput(d, pay, d[1] * d[2], PrintTail) :
                    pay \in [1 .. d[1] * d[2] -> PayBytes]} : d \in DecodeDims}

InitDecode ==
    /\ heap = EmptyHeap
    /\ img = [A |-> NilBinary, B |-> NilBinary, S |-> NilBinary, D |-> NilBinary]
    /\ panicked = FALSE
    /\ phase = "new"
    /\ nSets = 0
    /\ inp \in DecodeInputs
    /\ out = NoOut

\* D := Bytes2Image(body).Bitmap
DoDecode ==
    /\ phase = "new"
    /\ \E res \in {Bytes2Image(M, "D", inp.body)} :
          /\ heap' = res.m.heap
          /\ panicked' = res.m.panic
          /\ img' = [img EXCEPT !["D"] = res.image.Bitmap]
          /\ out' = [op |-> "dec", from |-> "input", v |-> "D", err |-> res.err,
                     Header |-> res.image.Header, Tail |-> res.image.Tail]
    /\ phase' = "done"
    /\ UNCHANGED <<nSets, inp>>

NextDecode == DoDecode

SpecDecode == InitDecode /\ [][NextDecode]_vars

(***************************************************************************)
(* Encoding: Image2Bytes and Encode applied to the images of the image     *)
(* machine, and Bytes2Image applied to what they return.                   *)
(***************************************************************************)
\* (w, h) of the image B that is encoded
EncDims == {<<8, 2>>, <<16, 2>>}

\* the rectangles of the sub-views that are encoded
EncRects == {Rect(8, 0, 16, 2), Rect(1, 0, 9, 1), Rect(0, 0, 5, 2), Rect(40, 0, 50, 2)}

\* (w, h, dpm, peel) handed to Encode; dpm 0 stands for the default 8
FullParams == {<<100, 50, 0, FALSE>>, <<3, 6, 4, TRUE>>}

InitEnc ==
    /\ \E d \in EncDims :
          LET r == NewBinary([heap |-> EmptyHeap, panic |-> FALSE], "B", d[1], d[2]) IN
          /\ heap = r.m.heap
          /\ img = [A |-> NilBinary, B |-> r.b, S |-> NilBinary, D |-> NilBinary]
    /\ panicked = FALSE
    /\ phase = "new"
    /\ nSets = 0
    /\ inp = "encode"
    /\ out = NoOut

\* Image2Bytes(v)
EncodeView(v) ==
    /\ Drawing
    /\ ~panicked
    /\ Live(v)
    /\ LET r == Image2Bytes(M, img[v]) IN
       /\ panicked' = r.panic
       /\ out' = [op |-> "enc", v |-> v, headerSize |-> r.headerSize,
                  bytes |-> IF r.panic THEN <<>> ELSE r.bitmap]
    /\ phase' = "enc"
    /\ UNCHANGED <<heap, img, nSets, inp>>

\* Encode(w, h, dpm, B, Options{Peel: peel})
FullEncode(p) ==
    /\ Drawing
    /\ ~panicked
    /\ LET r == Encode(M, p[1], p[2], p[3], img["B"], p[4]) IN
       /\ panicked' = r.panic
       /\ out' = [op |-> "full", v |-> "B", headerSize |-> 0,
                  bytes |-> IF r.panic THEN <<>> ELSE r.res]
    /\ phase' = "enc"
    /\ UNCHANGED <<heap, img, nSets, inp>>

\* D := Bytes2Image(the bytes just encoded).Bitmap
DecodeEncoded ==
    /\ phase = "enc"
    /\ ~panicked
    /\ \E res \in {Bytes2Image(M, "D", out.bytes)} :
          /\ heap' = res.m.heap
          /\ panicked' = res.m.panic
          /\ img' = [img EXCEPT !["D"] = res.image.Bitmap]
          /\ out' = [op |-> "dec", from |-> out.op, v |-> out.v, err |-> res.err,
                     Header |-> res.image.Header, Tail |-> res.image.Tail]
    /\ phase' = "done"
    /\ UNCHANGED <<nSets, inp>>

NextEnc ==
    \/ \E src \in Sources : Threshold(src)
    \/ \E r \in EncRects : MkSub(r)
    \/ \E v \in {"B", "S"} : \E x \in SetXs(img[v]), y \in SetYs(img[v]), c \in Colors :
          SetPix(v, x, y, c)
    \/ \E v \in {"B", "S"} : EncodeView(v)
    \/ \E p \in FullParams : FullEncode(p)
    \/ DecodeEncoded

SpecEnc == InitEnc /\ [][NextEnc]_vars

(***************************************************************************)
(* OverlayBinary applied to a base buffer and an overlay image: the image  *)
(* B, a sub-view S of it, or nil.                                          *)
(***************************************************************************)
\* a base buffer: what it is (kind), the rowBytes, height and header length
\* it was built with, the parse failure it was built to give, its bytes, and
\* the (w, h) of the image the overlays are cut from
OverlayCase(kind, r, h, hdrLen, parseErr, body, dims) ==
    [kind |-> kind, r |-> r, h |-> h, hdrLen |-> hdrLen, parseErr |-> parseErr,
     body |-> body, dims |-> dims]

\* the payloads of a well-formed base of n bytes
BasePayloads(n) ==
    {Zeros(n), [i \in 1 .. n |-> 255], [i \in 1 .. n |-> IF i % 2 = 1 THEN 165 ELSE 60]}

WellFormedCase(r, h, pay, tail, dims) ==
    LET hd == CanonHeader(<<0, 0, r, h, 1>>) IN
    OverlayCase("good", r, h, Len(hd), "", hd \o pay \o tail, dims)

OverlayCases ==
    UNION {{WellFormedCase(d[1], d[2], pay, tail, <<16, 2>>) :
               pay \in BasePayloads(d[1] * d[2]), tail \in {<<>>, PrintTail}} :
           d \in {<<1, 1>>, <<1, 2>>, <<2, 2>>}}
    \cup {\* the base of height 12 and the image a 10x10 overlay is cut from
          WellFormedCase(2, 12, Zeros(24), <<>>, <<16, 10>>),
          \* one payload byte short
          OverlayCase("short", 2, 2, 18, "", CanonHeader(<<0, 0, 2, 2, 1>>) \o <<255, 255, 255>>,
                      <<16, 2>>),
          \* height 0
          OverlayCase("flat", 1, 0, 18, "", CanonHeader(<<0, 0, 1, 0, 1>>) \o <<255>>, <<16, 2>>),
          OverlayCase("empty", 0, 0, 0, "", <<>>, <<16, 2>>),
          OverlayCase("unparsed", 0, 0, 0, "not a BITMAP line", PrintTail, <<16, 2>>),
          \* "BITMAP 0,0,1,1"
          OverlayCase("unparsed", 0, 0, 0, "invalid BITMAP format",
                      <<66, 73, 84, 77, 65, 80, 32, 48, 44, 48, 44, 49, 44, 49>>, <<16, 2>>)}

\* the rectangles of the overlays cut from B
OvRects == {Rect(3, 0, 11, 3), Rect(0, 0, 10, 10), Rect(5, 1, 6, 2), Rect(8, 0, 16, 3),
            Rect(2, 0, 15, 1), Rect(40, 0, 50, 2)}

OvXOffs == {-1, 0, 3, 5, 8}

OvYOffs == {-1, 0, 1, 5}

BaseSlice == [buf |-> "base", off |-> 0, len |-> Len(heap["base"])]

InitOverlay ==
    /\ \E c \in OverlayCases :
          LET r == NewBinary([heap |-> ("base" :> c.body), panic |-> FALSE], "B",
                             c.dims[1], c.dims[2])
          IN  /\ heap = r.m.heap
              /\ img = [A |-> NilBinary, B |-> r.b, S |-> NilBinary, D |-> NilBinary]
              /\ inp = c
    /\ panicked = FALSE
    /\ phase = "new"
    /\ nSets = 0
    /\ out = NoOut

\* OverlayBinary(baseHeader, base, v, xOff, yOff); baseHeader is nil, or the
\* header the caller parsed from base
DoOverlay(v, xOff, yOff, withHeader) ==
    /\ Drawing
    /\ ~panicked
    /\ \E p \in {ParseBitmapHeader(heap["base"])} :
          /\ withHeader => p.err = ""
          /\ \E res \in {OverlayBinary(M, "res", IF withHeader THEN p.h ELSE NoHeader,
                                       BaseSlice, img[v], xOff, yOff)} :
                /\ heap' = res.m.heap
                /\ panicked' = res.m.panic
                /\ out' = [op |-> "overlay", v |-> v, xOff |-> xOff, yOff |-> yOff,
                           withHeader |-> withHeader, err |-> res.err, res |-> res.res]
    /\ phase' = "done"
    /\ UNCHANGED <<img, nSets, inp>>

NextOverlay ==
    \/ \E src \in {"edge"} : Threshold(src)
    \/ \E r \in OvRects : MkSub(r)
    \/ \E v \in {"A", "B", "S"}, xOff \in OvXOffs, yOff \in OvYOffs, withHeader \in BOOLEAN :
          DoOverlay(v, xOff, yOff, withHeader)

SpecOverlay == InitOverlay /\ [][NextOverlay]_vars

(***************************************************************************)
(* Claims about the packed image.                                          *)
(***************************************************************************)
\* the pixels of view b as read through b, relative to its origin
Pixels(m, b) ==
    [c \in (0 .. Dx(b.Rect) - 1) \X (0 .. Dy(b.Rect) - 1) |->
        bit(m, b, b.Rect.MinX + c[1], b.Rect.MinY + c[2]).val]

\* C4: IsWhite is false and IsBlack is true at every coordinate outside the
\* view's rectangle, and neither call faults.
C4_OutOfRangeReadsOff ==
    out.op = "probe" =>
        \A c \in ProbeXs \X ProbeYs :
            ~In(c[1], c[2], img[out.v].Rect) =>
                /\ ~out.white[c].panic /\ ~out.white[c].val
                /\ ~out.black[c].panic /\ out.black[c].val

\* C5: two calls of Rotate180 on a view leave every byte of the backing
\* buffer, hence every pixel of the view, as it was before the first call.
C5_RotateTwiceIsIdentity ==
    (out.op = "rot" /\ out.n = 2) =>
        /\ ~panicked
        /\ heap = out.pre
        /\ Pixels(M, img[out.v]) = Pixels([heap |-> out.pre, panic |-> FALSE], img[out.v])

\* C5 witness: a view on the general path (unaligned origin, odd width and
\* height) rotated twice, the first rotation having changed the buffer.
C5_Witness ==
    /\ out.op = "rot" /\ out.n = 2
    /\ out.mid # out.pre
    /\ img[out.v].Rect.MinX % 8 # 0
    /\ Dx(img[out.v].Rect) % 2 = 1
    /\ Dy(img[out.v].Rect) > 1

\* C10: every pixel of a non-empty sub-view S reads through S as it reads
\* through its parent B.
C10_SubViewAliasesParent ==
    (Live("S") /\ ~Empty(img["S"].Rect)) =>
        \A x \in img["S"].Rect.MinX .. img["S"].Rect.MaxX - 1 :
            \A y \in img["S"].Rect.MinY .. img["S"].Rect.MaxY - 1 :
                bit(M, img["S"], x, y) = bit(M, img["B"], x, y)

\* C6: after Rotate180 on the fresh image A and on the unaligned sub-view S
\* holding the same pattern P, pixel (x, y) of A equals pixel (x, y) of S
\* (relative to S's origin) and both equal P(w-1-x, h-1-y).
C6_FastAndGeneralPathAgree ==
    (out.op = "pair" /\ out.rot["A"] /\ out.rot["S"]) =>
        LET w == Dx(img["A"].Rect)
            h == Dy(img["A"].Rect)
        IN  /\ ~panicked
            /\ \A x \in 0 .. w - 1 : \A y \in 0 .. h - 1 :
                  /\ bit(M, img["A"], x, y).val
                       = bit(M, img["S"], img["S"].Rect.MinX + x, img["S"].Rect.MinY + y).val
                  /\ bit(M, img["A"], x, y).val = out.P[<<w - 1 - x, h - 1 - y>>]

\* C6 witness: both rotated, two bytes per row and a middle row, the sub-view
\* unaligned, and a pattern with pixels on that is not its own rotation.
C6_Witness ==
    /\ out.op = "pair" /\ out.rot["A"] /\ out.rot["S"]
    /\ Dx(img["A"].Rect) = 16 /\ Dy(img["A"].Rect) = 3
    /\ img["S"].Rect.MinX % 8 # 0
    /\ \E c \in DOMAIN out.P : out.P[c] /\ ~out.P[<<15 - c[1], 2 - c[2]>>]

(***************************************************************************)
(* Claims about the codec.                                                 *)
(***************************************************************************)
CommaCount(body) == Cardinality({j \in 1 .. Len(body) : body[j] = Comma})

StartsWithBITMAP(body) ==
    /\ Len(body) >= 6
    /\ body[1] = 66 /\ body[2] = 73 /\ body[3] = 84
    /\ body[4] = 77 /\ body[5] = 65 /\ body[6] = 80

\* C9: a buffer that does not start with "BITMAP" fails as not a BITMAP line;
\* one that starts with it and holds fewer than five commas fails as an
\* invalid format; "BITMAP <x>,<y>,<r>,<h>,<m>," followed by any payload
\* parses to rowBytes r, width 8r, height h, and headerEnd just after the
\* fifth comma; "BITMAP 0,0,3,10,1," gives 3, 24, 10.
C9_ParseClassifiesHeaders ==
    out.op = "parse" =>
        /\ ~StartsWithBITMAP(inp.body) => out.res.err = "not a BITMAP line"
        /\ (StartsWithBITMAP(inp.body) /\ CommaCount(inp.body) < 5)
              => out.res.err = "invalid BITMAP format"
        /\ inp.form = "canon" =>
              /\ out.res.err = ""
              /\ out.res.h.RowBytes = inp.f[3]
              /\ out.res.h.Width = 8 * inp.f[3]
              /\ out.res.h.Height = inp.f[4]
              /\ out.res.h.HeaderEnd = Len(inp.body) - Len(inp.pay)
              /\ inp.body[out.res.h.HeaderEnd] = Comma
              /\ CommaCount(SubSeq(inp.body, 1, out.res.h.HeaderEnd)) = 5
        /\ inp.body = <<66, 73, 84, 77, 65, 80, 32, 48, 44, 48, 44, 51, 44, 49, 48, 44, 49, 44>>
              => /\ out.res.err = ""
                 /\ out.res.h.RowBytes = 3 /\ out.res.h.Width = 24 /\ out.res.h.Height = 10

\* C9 witness: "BITMAP 0,0,3,10,1," followed by a payload that holds commas
\* has been parsed.
C9_Witness ==
    /\ out.op = "parse"
    /\ inp.form = "canon"
    /\ inp.f = <<0, 0, 3, 10, 1>>
    /\ CommaCount(inp.pay) > 1
    /\ out.res.err = ""

\* the decoded image D has the rectangle of B and the same value at every pixel
DecodedEqualsB ==
    /\ ~panicked
    /\ out.err = ""
    /\ Live("D")
    /\ img["D"].Rect = img["B"].Rect
    /\ \A x \in img["B"].Rect.MinX .. img["B"].Rect.MaxX - 1 :
          \A y \in img["B"].Rect.MinY .. img["B"].Rect.MaxY - 1 :
              bit(M, img["D"], x, y) = bit(M, img["B"], x, y)

\* C1 as stated: Bytes2Image applied to the stream Encode returns for an
\* image made by NewBinary and per-pixel sets succeeds, and the decoded image
\* equals the original at every pixel.
C1_RoundTripThroughEncode ==
    (out.op = "dec" /\ out.from = "full") => DecodedEqualsB

\* C1 amended: Bytes2Image applied to the BITMAP command Image2Bytes returns
\* for such an image succeeds and the decoded image equals the original at
\* every pixel; applied to the stream of Encode, which starts with the setup
\* lines, it fails as not a BITMAP line.
C1_RoundTripThroughImage2Bytes ==
    /\ (out.op = "dec" /\ out.from = "enc" /\ out.v = "B") => DecodedEqualsB
    /\ (out.op = "dec" /\ out.from = "full") => out.err = "not a BITMAP line"

\* C1 witness: an image with pixels on and pixels off has been encoded by
\* Image2Bytes and decoded again.
C1_Witness ==
    /\ out.op = "dec" /\ out.from = "enc" /\ out.v = "B"
    /\ out.err = ""
    /\ \E i \in DOMAIN heap["B"] : heap["B"][i] \notin {0, 255}

\* C2: Bytes2Image of a valid line whose payload is cut anywhere from its
\* first byte to its last returns without error or fault; a pixel whose byte
\* is present is that byte's bit 7-(x mod 8), a pixel whose byte is missing
\* is off.
C2_TruncatedPayloadTolerated ==
    (out.op = "dec" /\ out.from = "input" /\ inp.n < inp.r * inp.h) =>
        /\ ~panicked
        /\ out.err = ""
        /\ \A x \in 0 .. 8 * inp.r - 1 : \A y \in 0 .. inp.h - 1 :
              LET j == y * inp.r + x \div 8 IN
              bit(M, img["D"], x, y)
                  = [panic |-> FALSE,
                     val |-> j < inp.n /\ BitAt(inp.pay[j + 1], 7 - (x % 8)) = 1]

\* the bytes C3 expects of Image2Bytes for view b
ExpectedHeader(b) ==
    BitmapLead \o FormatInt((Dx(b.Rect) + 7) \div 8) \o <<Comma>> \o FormatInt(Dy(b.Rect))
        \o BitmapModeTail

ExpectedPayloadBit(m, b, j, k) ==
    LET rowBytes == (Dx(b.Rect) + 7) \div 8
        y == j \div rowBytes
        x == 8 * (j % rowBytes) + (7 - k)
    IN  IF x < Dx(b.Rect) /\ bit(m, b, b.Rect.MinX + x, b.Rect.MinY + y).val THEN 1 ELSE 0

\* C3: Image2Bytes of a fresh image or a sub-view returns the header
\* "BITMAP 0,0,<rowBytes>,<h>,1," with rowBytes = ceil(w/8), its length as
\* headerSize, and rowBytes*h payload bytes whose bit 7-(x mod 8) of byte
\* y*rowBytes + x/8 is the view's pixel (ox+x, oy+y), padding bits 0.
C3_EncodePacksViewPixels ==
    out.op = "enc" =>
        LET b  == img[out.v]
            hd == ExpectedHeader(b)
            n  == ((Dx(b.Rect) + 7) \div 8) * Dy(b.Rect)
        IN  /\ ~panicked
            /\ out.headerSize = Len(hd)
            /\ Len(out.bytes) = Len(hd) + n
            /\ SubSeq(out.bytes, 1, Len(hd)) = hd
            /\ \A j \in 0 .. n - 1 : \A k \in 0 .. 7 :
                  BitAt(out.bytes[Len(hd) + j + 1], k) = ExpectedPayloadBit(M, b, j, k)

(***************************************************************************)
(* Claims about the overlay.                                               *)
(***************************************************************************)
\* overlay pixel (x, y) lands on bit k of byte i of the base
LandsOn(x, y, i, k) ==
    /\ i = inp.hdrLen + (y + out.yOff) * inp.r + (x + out.xOff) \div 8
    /\ k = 7 - ((x + out.xOff) % 8)

\* bit k of byte i of the buffer C7 expects: the overlay pixel that lands on
\* it, the base's bit where none does
ExpectedOverlayBit(i, k) ==
    LET ov   == img[out.v]
        hits == {c \in (0 .. Dx(ov.Rect) - 1) \X (0 .. Dy(ov.Rect) - 1) :
                    LandsOn(c[1], c[2], i, k)}
    IN  IF hits = {} THEN BitAt(inp.body[i + 1], k)
        ELSE LET c == CHOOSE c \in hits : TRUE IN
             IF bit(M, ov, ov.Rect.MinX + c[1], ov.Rect.MinY + c[2]).val THEN 1 ELSE 0

\* C7: a successful OverlayBinary returns a buffer as long as the base whose
\* bit 7-((x+xOff) mod 8) of byte headerEnd + (y+yOff)*rowBytes + (x+xOff)/8
\* is overlay pixel (x, y), whose every other bit is the base's, and the base
\* is unchanged.
C7_OverlayPatchesOnlyItsBits ==
    (out.op = "overlay" /\ out.err = "") =>
        /\ ~panicked
        /\ out.res.buf \in DOMAIN heap
        /\ out.res.len = Len(inp.body)
        /\ \A i \in 0 .. Len(inp.body) - 1 : \A k \in 0 .. 7 :
              BitAt(Load(M, out.res, i), k) = ExpectedOverlayBit(i, k)
        /\ heap["base"] = inp.body

\* C7 witness: an overlay with pixels on and off has been written at an
\* unaligned offset over a base whose payload has bits set and that has
\* bytes after the payload.
C7_Witness ==
    /\ out.op = "overlay" /\ out.err = ""
    /\ out.xOff = 3 /\ out.yOff = 1
    /\ Len(inp.body) > inp.hdrLen + inp.r * inp.h
    /\ \E i \in 1 .. Len(inp.body) : heap[out.res.buf][i] > inp.body[i]
    /\ \E i \in 1 .. Len(inp.body) : heap[out.res.buf][i] < inp.body[i]

\* the failure C8 expects of the call recorded in out: the first that applies
ExpectedOverlayErr ==
    LET ov == img[out.v] IN
    IF ov.isNil THEN "overlay is nil"
    ELSE IF out.xOff < 0 \/ out.yOff < 0 THEN "xOff/yOff must be >= 0"
    ELSE IF Len(inp.body) = 0 THEN "base is empty"
    ELSE IF inp.parseErr # "" THEN inp.parseErr
    ELSE IF Len(inp.body) < inp.hdrLen + inp.r * inp.h THEN "base body too short"
    ELSE IF Dx(ov.Rect) <= 0 \/ Dy(ov.Rect) <= 0 THEN "invalid overlay size"
    ELSE IF out.xOff + Dx(ov.Rect) > inp.r * 8 \/ out.yOff + Dy(ov.Rect) > inp.h
    THEN "overlay out of bounds"
    ELSE ""

\* C8: OverlayBinary returns the first failure that applies, in the order nil
\* overlay, negative offset, empty base, header parse failure, base too
\* short, invalid overlay size, overlay out of bounds, and succeeds when none
\* does; a failure comes with no buffer; a 10x10 overlay on a base of height
\* 12 is out of bounds at (5,5) and succeeds at (0,0).
C8_OverlayValidationOrder ==
    out.op = "overlay" =>
        /\ ~panicked
        /\ out.err = ExpectedOverlayErr
        /\ out.err # "" => (out.res = NilSlice /\ "res" \notin DOMAIN heap)
        /\ out.err = "" => out.res.len = Len(inp.body)
        /\ (inp.h = 12 /\ Dx(img[out.v].Rect) = 10 /\ Dy(img[out.v].Rect) = 10) =>
              /\ (out.xOff = 5 /\ out.yOff = 5) => out.err = "overlay out of bounds"
              /\ (out.xOff = 0 /\ out.yOff = 0) => out.err = ""

\* C8 witness: the 10x10 overlay at (5,5) on the base of height 12 has been
\* refused as out of bounds.
C8_Witness ==
    /\ out.op = "overlay"
    /\ inp.h = 12
    /\ Dx(img[out.v].Rect) = 10 /\ Dy(img[out.v].Rect) = 10
    /\ out.xOff = 5 /\ out.yOff = 5
    /\ out.err = "overlay out of bounds"
====
